---- MODULE Spec2Model ----
(***************************************************************************)
(* Model of the content-managed website backend:                           *)
(*   - the per-page content services (src/lib/*.service.ts), which read    *)
(*     one row of the shared "Home" table by page name and insert or       *)
(*     update it;                                                          *)
(*   - the per-page GET/POST API routes that wrap them;                    *)
(*   - the module-level cache, in-flight promise, subscriber set and       *)
(*     realtime channel of ReserveBasementDrawer.tsx.                      *)
(* Every await of the code is a point where other requests and handlers    *)
(* may run, so each handler is split into one action per run-to-await      *)
(* segment.                                                                *)
(***************************************************************************)
EXTENDS Integers, FiniteSets, Sequences, TLC

(***************************************************************************)
(* Bounds of the model.                                                    *)
(***************************************************************************)
\* number of HTTP requests served in one behaviour
NumCalls == 2
\* number of distinct section payloads a request may carry
NumValues == 2
\* largest number of rows the table may hold
MaxRows == 3
\* number of instances of the drawer component
NumDrawers == 1
\* number of callbacks given to subscribeToReserveBasementCache: those of
\* the drawers and those of other callers
NumCallbacks == 3
\* number of requests to /api/reserve-basement in one behaviour
MaxFetches == 2
\* number of distinct contents the API may return
NumContents == 2
\* number of getEnv calls made through the env getters in one behaviour
MaxGetEnvCalls == 2

Calls == 1..NumCalls

(***************************************************************************)
(* The content table and the values stored in it.                          *)
(***************************************************************************)
HOME_TABLE == "Home"

\* the page_name keys of the services
Pages == {"contact", "reserve-basement"}

\* the page whose routes the requests of a behaviour go to; the row of the
\* other page is in the table to be left alone
ServedPages == {"contact"}

\* section keys named by the content types
SectionKeys == {"header", "content"}

\* a JavaScript undefined (a property the request body does not carry)
Undefined == "undefined"

\* section payloads: opaque JSON objects, here numbered
SectionValues == 1..NumValues

\* what the sectionKey property of a request body may be
BodyKeys == SectionKeys \cup {"", Undefined}

\* what the sectionData property of a request body may be
\* (0 stands for a missing property, i.e. undefined)
BodyValues == SectionValues \cup {0}

\* all JSON documents {key: section} over the section keys
SectionMaps == UNION {[D -> SectionValues] : D \in SUBSET SectionKeys}

\* the null a failed read yields in place of a row
NoRow == [id |-> 0, page_name |-> "", data |-> [page |-> "", data |-> << >>]]

IsNull(row) == row.id = 0

\* JavaScript truthiness of a sectionKey
Truthy(k) == k \notin {"", Undefined}

\* a || b on strings
OrElse(a, b) == IF a = "" THEN b ELSE a

\* JSON serialisation of { ...sections, [key]: value }: a property whose
\* value is undefined is dropped from the document that is sent
MergeSection(sections, key, value) ==
    LET dom == IF value = 0 THEN DOMAIN sections \ {key}
                            ELSE DOMAIN sections \cup {key}
    IN  [k \in dom |-> IF k = key THEN value ELSE sections[k]]

\* current.data?.data || {}
SectionsOf(row) == row.data.data

RowsOf(tbl, page) == {r \in tbl : r.page_name = page}

\* the id the database gives the next inserted row
NextId(tbl) == Cardinality(tbl) + 1

\* a row of the table: id, page_name and the JSON column data = {page, data}
Row(id, page, sections) ==
    [id |-> id, page_name |-> page, data |-> [page |-> page, data |-> sections]]

(***************************************************************************)
(* How a database request may end: the database answers ("ok"), the client *)
(* returns an error object ("error"), or the client throws ("throw").      *)
(***************************************************************************)
DbOutcomes == {"ok", "error", "throw"}

\* error.message of an error object returned by the client
DbMessages == {"", "db error"}

\* error?.message ?? String(error) of a thrown exception
ExceptionMessage == "exception"

(***************************************************************************)
(* State.                                                                  *)
(***************************************************************************)
VARIABLES
    table,      \* the rows of the Home table
    call,       \* call[c]: the HTTP request c and where its handler stands
    reserveBasementCache,         \* the cached content, 0 for null
    reserveBasementFetchPromise,  \* the memoized promise (a fetch), 0 for null
    reserveBasementSubscribers,   \* the drawers whose callback is in the Set
    reserveBasementChannel,       \* whether the module holds a channel
    fetches,    \* fetches[f]: the f-th request to /api/reserve-basement
    drawer,     \* drawer[d]: the props and effects of a drawer instance
    channelsOpen, \* channels subscribed at the realtime client
    events,     \* live-update events received so far
    notified,   \* notified[d]: calls of drawer d's callback, and the last value
    unsubscribers, \* unsubscribers[d]: the function returned to callback d
    processEnv, \* process.env of the process
    window,     \* whether `window` is defined: the code runs in a browser
    cachedConfig,   \* the memoized config of the env module, NoConfig for null
    objects,    \* config objects created so far
    getEnvReturns,  \* what each getEnv call of an env getter came back with
    lastValidation, \* the outcome of the last execution of validateEnv
    loaded,     \* the loading of the validate-env module
    mail        \* the request to the email-send route and where it stands

serviceVars == <<table, call>>

drawerVars ==
    <<reserveBasementCache, reserveBasementFetchPromise,
      reserveBasementSubscribers, reserveBasementChannel, fetches, drawer,
      channelsOpen, events, notified, unsubscribers>>

envVars ==
    <<processEnv, window, cachedConfig, objects, getEnvReturns,
      lastValidation, loaded, mail>>

vars == <<table, call, reserveBasementCache, reserveBasementFetchPromise,
          reserveBasementSubscribers, reserveBasementChannel, fetches, drawer,
          channelsOpen, events, notified, unsubscribers, processEnv, window,
          cachedConfig, objects, getEnvReturns, lastValidation, loaded, mail>>

\* a result of update<Page>Section: {success, error?, data?}
NoResult == [success |-> FALSE, error |-> "", data |-> NoRow]

\* a response that was not sent yet
NoResponse ==
    [status |-> 0, ok |-> FALSE, fields |-> {}, message |-> "", error |-> "",
     data |-> NoRow]

\* NextResponse.json({ ok: false, message }, { status })
JsonFailure(status, message) ==
    [status |-> status, ok |-> FALSE, fields |-> {"message"},
     message |-> message, error |-> "", data |-> NoRow]

\* NextResponse.json({ ok: false, message, error }, { status: 500 })
JsonException(message, error) ==
    [status |-> 500, ok |-> FALSE, fields |-> {"message", "error"},
     message |-> message, error |-> error, data |-> NoRow]

\* NextResponse.json({ ok: true, <page>: data }): status 200
JsonOk(data) ==
    [status |-> 200, ok |-> TRUE, fields |-> {"data"},
     message |-> "", error |-> "", data |-> data]

\* the message of the GET routes' catch block
FetchFailMessage(page) ==
    IF page = "contact" THEN "Failed to fetch contact content"
                        ELSE "Failed to fetch reserve basement content"

\* the message of the POST routes' catch block
UpdateFailMessage(page) ==
    IF page = "contact" THEN "Failed to update contact section"
                        ELSE "Failed to update reserve basement section"

IdleCall ==
    [pc |-> "idle", kind |-> "", page |-> "", parsed |-> FALSE, key |-> "",
     value |-> 0,
     current |-> NoRow, serviceCalled |-> FALSE, result |-> NoResult,
     resp |-> NoResponse,
     \* history of the request, read by the properties only
     before |-> {}, reads |-> 0, writes |-> 0,
     readOutcome |-> "none", inserted |-> FALSE, updated |-> FALSE,
     rowAtWrite |-> FALSE, written |-> NoRow]

\* the request bodies: one that req.json() rejects, and the JSON objects
Bodies ==
    {[valid |-> FALSE, sectionKey |-> Undefined, sectionData |-> 0]}
    \cup [valid : {TRUE}, sectionKey : BodyKeys, sectionData : BodyValues]

\* the tables with zero or one row per page that the services can have built
InitTables ==
    LET Served == {{}} \cup {{Row(1, "contact", s)} : s \in SectionMaps}
        filled == [k \in SectionKeys |-> 1]
    IN  UNION {{t, t \cup {Row(NextId(t), "reserve-basement", filled)}} :
                 t \in Served}

Drawers == 1..NumDrawers

\* callback d is the one of drawer d
Callbacks == 1..NumCallbacks

Fetches == 1..MaxFetches

\* the contents the API may return (json.reserveBasement.data, normalized)
Contents == 1..NumContents

\* a request to /api/reserve-basement that was not made yet
\* while the request is pending, owner and live are the drawer whose open
\* effect awaits it and the `mounted` flag of that effect, and cached tells
\* whether the cache was populated when the request was made; handled tells
\* whether a rejection reached a catch
NoFetch ==
    [state |-> "unused", origin |-> "", content |-> 0, owner |-> 0,
     live |-> FALSE, cached |-> FALSE, handled |-> FALSE]

\* the fields of the drawer that come from the content
FieldOrder ==
    <<"introCopy", "contactDetails", "policyTitle", "policyItems",
      "reservationFormUrl">>

Fields == {FieldOrder[i] : i \in 1..Len(FieldOrder)}

\* a field value: [] or "", a DEFAULT_* constant, or what content c holds
EmptyValue == [kind |-> "empty", content |-> 0]

DefaultValue == [kind |-> "default", content |-> 0]

DbValue(c) == [kind |-> "db", content |-> c]

\* the fields content c holds a non-empty value for: content 1 holds all,
\* content c lacks the first c - 1
FieldsOf(c) ==
    {FieldOrder[i] : i \in {j \in 1..Len(FieldOrder) : j >= c}}

\* extractReserveBasementData(src): what the content holds, no defaults
extractReserveBasementData(src) ==
    [f \in Fields |->
        IF src # 0 /\ f \in FieldsOf(src) THEN DbValue(src) ELSE EmptyValue]

\* a drawer that is not mounted; a mounted one starts from the same state.
\* source is the content the last applySrcToState was given, 0 for none
NoDrawer ==
    [mounted |-> FALSE, isOpen |-> FALSE, dataLoaded |-> FALSE,
     state |-> [f \in Fields |-> EmptyValue], source |-> 0]

(***************************************************************************)
(* The environment: process.env and the values of the env module.          *)
(***************************************************************************)
\* the length below which a Supabase key is taken to be invalid
MinKeyLength == 20

\* the SMTP port used when SMTP_PORT is not set
DefaultSmtpPort == 587

\* a URL variable holds a string, here its scheme and the rest; a variable
\* that is not set, or set to "", has neither
NoUrl == [scheme |-> "", rest |-> ""]

\* "https://arqum.org"
DefaultSiteUrl == [scheme |-> "https", rest |-> "arqum.org"]

UrlValues ==
    {NoUrl, [scheme |-> "", rest |-> "localhost:3000"],
     [scheme |-> "https", rest |-> "project.supabase.co"]}

\* a key variable holds a string, here its length, 0 when it is not set
KeyValues == {0, MinKeyLength - 1, MinKeyLength}

\* an SMTP or EMAIL variable holds "" (or is not set) or a value
SmtpValues == {"", "set"}

\* SMTP_PORT holds "" (or is not set), a number or something else
PortValues == {"", "465", "smtp"}

NodeEnvs == {"production", "development"}

SmtpNames == {"SMTP_HOST", "SMTP_USER", "SMTP_PASS", "EMAIL_FROM", "EMAIL_TO"}

ProcessEnvs ==
    [NEXT_PUBLIC_SUPABASE_URL : UrlValues,
     NEXT_PUBLIC_SUPABASE_ANON_KEY : KeyValues,
     SUPABASE_SERVICE_ROLE_KEY : KeyValues,
     NEXT_PUBLIC_SITE_URL : UrlValues,
     SMTP_HOST : SmtpValues, SMTP_PORT : PortValues, SMTP_USER : SmtpValues,
     SMTP_PASS : SmtpValues, EMAIL_FROM : SmtpValues, EMAIL_TO : SmtpValues,
     NODE_ENV : NodeEnvs]

\* an environment with nothing but the two required variables
PlainEnv ==
    [NEXT_PUBLIC_SUPABASE_URL |->
        [scheme |-> "https", rest |-> "project.supabase.co"],
     NEXT_PUBLIC_SUPABASE_ANON_KEY |-> MinKeyLength,
     SUPABASE_SERVICE_ROLE_KEY |-> 0,
     NEXT_PUBLIC_SITE_URL |-> NoUrl,
     SMTP_HOST |-> "", SMTP_PORT |-> "", SMTP_USER |-> "", SMTP_PASS |-> "",
     EMAIL_FROM |-> "", EMAIL_TO |-> "", NODE_ENV |-> "production"]

\* isValidUrl(url): new URL(url) throws on a string without a scheme
isValidUrl(url) == url.scheme # ""

\* parseInt(smtpPort, 10): the number the string starts with; NaN, which
\* is falsy like 0, is written 0
parseInt(str) == IF str = "465" THEN 465 ELSE 0

\* a key shorter than or as long as the minimum is too short
TooShort_Inclusive(key) == key <= MinKeyLength

\* supabaseAnonKey.length < 20, supabaseServiceKey.length < 20
TooShort(key) == key < MinKeyLength

\* config.email when validateEnv left emailConfig empty
NoEmail ==
    [smtpHost |-> "", smtpPort |-> 0, smtpUser |-> "", smtpPass |-> "",
     from |-> "", to |-> ""]

\* null, and the value of a validateEnv that threw
NoConfig ==
    [id |-> 0,
     supabase |-> [url |-> NoUrl, anonKey |-> 0, serviceRoleKey |-> 0],
     site |-> [url |-> NoUrl], email |-> NoEmail]

\* the errors validateEnv collects
EnvErrors(pe) ==
    (IF pe.NEXT_PUBLIC_SUPABASE_URL = NoUrl
     THEN {"NEXT_PUBLIC_SUPABASE_URL is required"}
     ELSE IF ~isValidUrl(pe.NEXT_PUBLIC_SUPABASE_URL)
     THEN {"NEXT_PUBLIC_SUPABASE_URL must be a valid URL"}
     ELSE {})
    \cup
    (IF pe.NEXT_PUBLIC_SUPABASE_ANON_KEY = 0
     THEN {"NEXT_PUBLIC_SUPABASE_ANON_KEY is required"}
     ELSE IF TooShort(pe.NEXT_PUBLIC_SUPABASE_ANON_KEY)
     THEN {"NEXT_PUBLIC_SUPABASE_ANON_KEY appears to be invalid"}
     ELSE {})

\* process.env.NEXT_PUBLIC_SITE_URL || "https://arqum.org"
SiteUrl(pe) ==
    IF pe.NEXT_PUBLIC_SITE_URL # NoUrl THEN pe.NEXT_PUBLIC_SITE_URL
    ELSE DefaultSiteUrl

\* missingFields of validateEnv
MissingFields(pe) == {n \in SmtpNames : pe[n] = ""}

\* smtpHost || smtpUser || smtpPass || emailFrom || emailTo
AnyEmailSet(pe) == MissingFields(pe) # SmtpNames

\* the warnings validateEnv collects
EnvWarnings(pe) ==
    (IF pe.SUPABASE_SERVICE_ROLE_KEY = 0
     THEN {<<"SUPABASE_SERVICE_ROLE_KEY", "is not set">>}
     ELSE IF TooShort(pe.SUPABASE_SERVICE_ROLE_KEY)
     THEN {<<"SUPABASE_SERVICE_ROLE_KEY", "appears to be invalid">>}
     ELSE {})
    \cup
    (IF ~isValidUrl(SiteUrl(pe))
     THEN {<<"NEXT_PUBLIC_SITE_URL", "is not a valid URL, using default">>}
     ELSE {})
    \cup
    (IF AnyEmailSet(pe)
     THEN {<<n, "is missing but other email config is present">> :
              n \in MissingFields(pe)}
          \cup (IF MissingFields(pe) # {}
                THEN {<<"Email configuration", "is incomplete">>}
                ELSE {})
     ELSE {})

\* an emailConfig filled as soon as one email variable is set
EmailConfig_Partial(pe) ==
    IF AnyEmailSet(pe)
    THEN [smtpHost |-> pe.SMTP_HOST,
          smtpPort |-> IF pe.SMTP_PORT # "" THEN parseInt(pe.SMTP_PORT)
                       ELSE DefaultSmtpPort,
          smtpUser |-> pe.SMTP_USER, smtpPass |-> pe.SMTP_PASS,
          from |-> pe.EMAIL_FROM, to |-> pe.EMAIL_TO]
    ELSE NoEmail

\* emailConfig of validateEnv
EmailConfig(pe) ==
    IF AnyEmailSet(pe) /\ MissingFields(pe) = {}
    THEN [smtpHost |-> pe.SMTP_HOST,
          smtpPort |-> IF pe.SMTP_PORT # "" THEN parseInt(pe.SMTP_PORT)
                       ELSE DefaultSmtpPort,
          smtpUser |-> pe.SMTP_USER, smtpPass |-> pe.SMTP_PASS,
          from |-> pe.EMAIL_FROM, to |-> pe.EMAIL_TO]
    ELSE NoEmail

\* validateEnv(): what it logs, and what it throws or returns; the config
\* gets its identity where it is stored
validateEnv(pe) ==
    [ran |-> TRUE,
     threw |-> EnvErrors(pe) # {},
     errors |-> EnvErrors(pe),
     warnings |-> EnvWarnings(pe),
     config |->
        IF EnvErrors(pe) # {} THEN NoConfig
        ELSE [id |-> 0,
              supabase |->
                 [url |-> pe.NEXT_PUBLIC_SUPABASE_URL,
                  anonKey |-> pe.NEXT_PUBLIC_SUPABASE_ANON_KEY,
                  serviceRoleKey |-> pe.SUPABASE_SERVICE_ROLE_KEY],
              site |-> [url |-> SiteUrl(pe)],
              email |-> EmailConfig(pe)]]

\* validateEnv was not executed yet
NoValidation ==
    [ran |-> FALSE, threw |-> FALSE, errors |-> {}, warnings |-> {},
     config |-> NoConfig]

\* the email-send route before a request
IdleMail ==
    [pc |-> "idle", status |-> 0, error |-> "", missing |-> {},
     ok |-> FALSE, configured |-> FALSE, verified |-> "none",
     calls |-> <<>>]

\* the env and validate-env modules before they are used
InitEnvModule ==
    /\ cachedConfig = NoConfig
    /\ objects = 0
    /\ getEnvReturns = <<>>
    /\ lastValidation = NoValidation
    /\ loaded = [state |-> "no", validated |-> FALSE]
    /\ mail = IdleMail

\* the module-level state of ReserveBasementDrawer.tsx when it is loaded,
\* with no drawer mounted
InitDrawerModule ==
    /\ reserveBasementCache = 0
    /\ reserveBasementFetchPromise = 0
    /\ reserveBasementSubscribers = {}
    /\ reserveBasementChannel = FALSE
    /\ fetches = [f \in Fetches |-> NoFetch]
    /\ drawer = [d \in Drawers |-> NoDrawer]
    /\ channelsOpen = 0
    /\ events = 0
    /\ notified = [d \in Callbacks |-> [count |-> 0, value |-> 0]]
    /\ unsubscribers = [d \in Callbacks |-> "none"]

Init ==
    /\ table \in InitTables
    /\ call = [c \in Calls |-> IdleCall]
    /\ InitDrawerModule
    /\ processEnv = PlainEnv /\ window = FALSE
    /\ InitEnvModule

\* the drawer module in a browser, with no request of the model running
InitDrawer ==
    /\ table = {}
    /\ call = [c \in Calls |-> IdleCall]
    /\ InitDrawerModule
    /\ processEnv = PlainEnv /\ window = TRUE
    /\ InitEnvModule

\* a process, server or browser, with any environment
InitEnv ==
    /\ table = {}
    /\ call = [c \in Calls |-> IdleCall]
    /\ InitDrawerModule
    /\ processEnv \in ProcessEnvs /\ window \in BOOLEAN
    /\ InitEnvModule

\* a server with any environment
InitEmail ==
    /\ table = {}
    /\ call = [c \in Calls |-> IdleCall]
    /\ InitDrawerModule
    /\ processEnv \in ProcessEnvs /\ window = FALSE
    /\ InitEnvModule

(***************************************************************************)
(* get<Page>Content: select("*").eq("page_name", page).single().           *)
(* single() yields an error unless exactly one row matches; any error is   *)
(* logged and null returned; an exception of the client propagates.        *)
(***************************************************************************)
get_Content(tbl, page, outcome) ==
    LET rows == RowsOf(tbl, page)
    IN  IF outcome = "throw" THEN [thrown |-> TRUE, row |-> NoRow]
        ELSE IF outcome = "error" \/ Cardinality(rows) # 1
             THEN [thrown |-> FALSE, row |-> NoRow]
             ELSE [thrown |-> FALSE, row |-> CHOOSE r \in rows : TRUE]

(***************************************************************************)
(* The GET route of a page.                                                *)
(***************************************************************************)
\* the response of GET once get<Page>Content has returned or thrown
GETResponse(page, got) ==
    IF got.thrown THEN JsonException(FetchFailMessage(page), ExceptionMessage)
    ELSE JsonOk(got.row)

\* GET up to its await of get<Page>Content
GET(c, page) ==
    /\ call[c].pc = "idle"
    /\ \A d \in Calls : d < c => call[d].pc # "idle"
    /\ call' = [call EXCEPT ![c] =
                  [IdleCall EXCEPT !.kind = "GET", !.page = page, !.pc = "get",
                                   !.before = RowsOf(table, page)]]
    /\ UNCHANGED <<table, drawerVars, envVars>>

\* the database answers the select of GET, and the route responds
GETRead(c, outcome) ==
    /\ call[c].pc = "get"
    /\ call' = [call EXCEPT ![c] =
                  [@ EXCEPT !.pc = "done", !.reads = @ + 1,
                            !.readOutcome = outcome,
                            !.resp = GETResponse(call[c].page,
                                        get_Content(table, call[c].page, outcome))]]
    /\ UNCHANGED <<table, drawerVars, envVars>>

(***************************************************************************)
(* The POST route of a page and update<Page>Section.                       *)
(***************************************************************************)
\* the check written as sectionKey === undefined, which lets "" through
MissingSectionKey_UndefinedOnly(body) == body.sectionKey = Undefined

\* if (!sectionKey)
MissingSectionKey(body) == ~Truthy(body.sectionKey)

\* the route without its if (!result.success) branch
POSTResponse_Unchecked(result) == JsonOk(result.data)

\* the response of POST once update<Page>Section has returned
POSTResponse(result) ==
    IF ~result.success
    THEN JsonFailure(500, OrElse(result.error, "Failed to update"))
    ELSE JsonOk(result.data)

\* update<Page>Section returns `result` and the route responds
Return(rec, result) ==
    [rec EXCEPT !.pc = "done", !.result = result, !.resp = POSTResponse(result)]

\* { success: false, error }
Failure(message) == [success |-> FALSE, error |-> message, data |-> NoRow]

\* { success: true, data }
Success(row) == [success |-> TRUE, error |-> "", data |-> row]

\* the message a failed database request leaves in the result
FailureMessage(outcome, msg) ==
    IF outcome = "throw" THEN ExceptionMessage ELSE msg

\* POST up to its first await of the database: parse the body, check
\* sectionKey, call update<Page>Section, which calls get<Page>Content
POST(c, page, body) ==
    /\ call[c].pc = "idle"
    /\ \A d \in Calls : d < c => call[d].pc # "idle"
    /\ LET started == [IdleCall EXCEPT !.kind = "POST", !.page = page,
                                       !.before = RowsOf(table, page)]
       IN  call' = [call EXCEPT ![c] =
             IF ~body.valid
             THEN [started EXCEPT
                     !.pc = "done",
                     !.resp = JsonException(UpdateFailMessage(page),
                                            ExceptionMessage)]
             ELSE IF MissingSectionKey(body)
             THEN [started EXCEPT
                     !.pc = "done", !.parsed = TRUE, !.key = body.sectionKey,
                     !.resp = JsonFailure(400, "Missing sectionKey")]
             ELSE [started EXCEPT
                     !.pc = "read", !.parsed = TRUE, !.key = body.sectionKey,
                     !.value = body.sectionData, !.serviceCalled = TRUE]]
    /\ UNCHANGED <<table, drawerVars, envVars>>

\* the branch update<Page>Section takes on what get<Page>Content returned
WriteBranch(current) == IF IsNull(current) THEN "insert" ELSE "update"

\* the database answers the select of update<Page>Section, which goes on
\* to send its insert or its update
updateSectionRead(c, outcome) ==
    /\ call[c].pc = "read"
    /\ LET got == get_Content(table, call[c].page, outcome)
           me  == [call[c] EXCEPT !.reads = @ + 1, !.readOutcome = outcome]
       IN  call' = [call EXCEPT ![c] =
             IF got.thrown
             THEN Return(me, Failure(ExceptionMessage))
             ELSE [me EXCEPT !.current = got.row,
                             !.pc = WriteBranch(got.row)]]
    /\ UNCHANGED <<table, drawerVars, envVars>>

\* the row insert({ data: newData, page_name }) creates
InsertedRow(tbl, page, key, value) ==
    Row(NextId(tbl), page, MergeSection(<< >>, key, value))

\* the database answers the insert.  The schema is not part of the
\* repository: a database that refuses a second row of a page answers
\* "error", one that accepts it answers "ok".
updateSectionInsert(c, outcome, msg) ==
    /\ call[c].pc = "insert"
    /\ outcome = "ok" => Cardinality(table) < MaxRows
    /\ UNCHANGED <<drawerVars, envVars>>
    /\ LET me  == [call[c] EXCEPT !.writes = @ + 1,
                                  !.rowAtWrite = RowsOf(table, call[c].page) # {}]
           row == InsertedRow(table, me.page, me.key, me.value)
       IN  IF outcome = "ok"
           THEN /\ table' = table \cup {row}
                /\ call' = [call EXCEPT ![c] =
                              Return([me EXCEPT !.inserted = TRUE,
                                                !.written = row],
                                     Success(row))]
           ELSE /\ table' = table
                /\ call' = [call EXCEPT ![c] =
                              Return(me, Failure(FailureMessage(outcome, msg)))]

\* the row update({ data: updatedData, updated_at }).eq("id", current.id)
\* leaves in place of `old`
UpdatedRow(old, current, page, key, value) ==
    [old EXCEPT !.data = [page |-> page,
                          data |-> MergeSection(SectionsOf(current), key, value)]]

\* the database answers the update
updateSectionUpdate(c, outcome, msg) ==
    /\ call[c].pc = "update"
    /\ UNCHANGED <<drawerVars, envVars>>
    /\ LET me  == [call[c] EXCEPT !.writes = @ + 1,
                                  !.rowAtWrite = RowsOf(table, call[c].page) # {}]
           old == CHOOSE r \in table : r.id = me.current.id
           row == UpdatedRow(old, me.current, me.page, me.key, me.value)
       IN  IF outcome = "ok"
           THEN /\ table' = (table \ {old}) \cup {row}
                /\ call' = [call EXCEPT ![c] =
                              Return([me EXCEPT !.updated = TRUE,
                                                !.written = row],
                                     Success(row))]
           ELSE /\ table' = table
                /\ call' = [call EXCEPT ![c] =
                              Return(me, Failure(FailureMessage(outcome, msg)))]

(***************************************************************************)
(* The module-level cache of ReserveBasementDrawer.tsx.                    *)
(***************************************************************************)
\* the early return on a populated cache taken even when forced
StartsFetch_CacheFirst(force) == reserveBasementCache = 0

\* the early returns skipped only when there is no promise in flight
StartsFetch_SingleFlight(force) == reserveBasementFetchPromise = 0

\* whether fetchReserveBasementCached(force) gets past its early returns
StartsFetch(force) ==
    /\ ~(reserveBasementCache # 0 /\ ~force)
    /\ ~(reserveBasementFetchPromise # 0 /\ ~force)

\* the next request to /api/reserve-basement
NewFetch ==
    CHOOSE f \in Fetches :
        /\ fetches[f].state = "unused"
        /\ \A g \in Fetches : g < f => fetches[g].state # "unused"

\* fetchReserveBasementCached(force) up to its await of fetch(): the async
\* function is started, memoized and its request sent; d is the drawer
\* whose open effect made the call, 0 for the handler of the channel
fetchReserveBasementCached(force, origin, d) ==
    IF StartsFetch(force)
    THEN /\ \E f \in Fetches : fetches[f].state = "unused"
         /\ fetches' = [fetches EXCEPT ![NewFetch] =
                          [state |-> "pending", origin |-> origin,
                           content |-> 0, owner |-> d, live |-> d # 0,
                           cached |-> reserveBasementCache # 0,
                           handled |-> FALSE]]
         /\ reserveBasementFetchPromise' = NewFetch
    ELSE UNCHANGED <<fetches, reserveBasementFetchPromise>>

\* what a request to /api/reserve-basement may come back with: fetch()
\* rejects, res.ok is false, json.ok is false, or json.reserveBasement.data
\* is missing (0) or a content
Responses ==
    {[failed |-> TRUE, ok |-> FALSE, jsonOk |-> FALSE, data |-> 0],
     [failed |-> FALSE, ok |-> FALSE, jsonOk |-> FALSE, data |-> 0],
     [failed |-> FALSE, ok |-> TRUE, jsonOk |-> FALSE, data |-> 0]}
    \cup [failed : {FALSE}, ok : {TRUE}, jsonOk : {TRUE},
          data : Contents \cup {0}]

\* the async function throws: fetch() rejected or !res.ok
Throws(response) == response.failed \/ ~response.ok

\* the value the async function stores in reserveBasementCache
FetchedContent(response) ==
    IF ~response.jsonOk \/ response.data = 0 THEN 0 ELSE response.data

\* reserveBasementSubscribers.forEach((cb) => cb(reserveBasementCache))
Notify(subscribers, value) ==
    [d \in Callbacks |->
        IF d \in subscribers
        THEN [count |-> notified[d].count + 1, value |-> value]
        ELSE notified[d]]

\* applySrcToState that leaves every missing field empty
applySrcToState_NoDefaults(dr, src, useDefaults) ==
    IF src = 0 /\ ~useDefaults THEN dr
    ELSE [dr EXCEPT !.state = extractReserveBasementData(src),
                    !.dataLoaded = TRUE, !.source = src]

\* applySrcToState(src, useDefaults) of the drawer whose state is dr
applySrcToState(dr, src, useDefaults) ==
    IF src = 0 /\ ~useDefaults THEN dr
    ELSE LET extracted == extractReserveBasementData(src)
         IN  [dr EXCEPT
                !.state = [f \in Fields |->
                             IF extracted[f] # EmptyValue THEN extracted[f]
                             ELSE IF useDefaults THEN DefaultValue
                             ELSE EmptyValue],
                !.dataLoaded = TRUE,
                !.source = src]

\* the callback of the subscribe effect of the drawer whose state is dr
CacheCallback(dr, data) ==
    IF ~dr.mounted THEN dr
    ELSE IF data # 0 THEN applySrcToState(dr, data, FALSE)
    ELSE dr

\* the then of the open effect, mounted being the flag of that effect
OpenThen(dr, mounted, data) ==
    IF ~mounted THEN dr
    ELSE IF data # 0 THEN applySrcToState(dr, data, FALSE)
    ELSE applySrcToState(dr, 0, TRUE)

\* the catch of the open effect
OpenCatch(dr, mounted) ==
    IF mounted THEN applySrcToState(dr, 0, TRUE) ELSE dr

\* the request of fetch f comes back and the async function runs to its
\* end, followed by what awaits its promise: the catch of the handler of the
\* channel, or the then or catch of the open effect
FetchComplete(f, response) ==
    /\ fetches[f].state = "pending"
    /\ IF Throws(response)
       THEN /\ fetches' = [fetches EXCEPT ![f] =
                             [NoFetch EXCEPT !.state = "rejected",
                                             !.origin = fetches[f].origin,
                                             !.handled = TRUE]]
            /\ drawer' =
                 [d \in Drawers |->
                     IF fetches[f].origin = "open" /\ fetches[f].owner = d
                     THEN OpenCatch(drawer[d], fetches[f].live)
                     ELSE drawer[d]]
            /\ UNCHANGED <<reserveBasementCache, reserveBasementFetchPromise,
                           notified>>
       ELSE /\ fetches' = [fetches EXCEPT ![f] =
                             [NoFetch EXCEPT
                                !.state = "resolved",
                                !.origin = fetches[f].origin,
                                !.content = FetchedContent(response)]]
            /\ reserveBasementCache' = FetchedContent(response)
            /\ reserveBasementFetchPromise' = 0
            /\ notified' = Notify(reserveBasementSubscribers,
                                  FetchedContent(response))
            /\ drawer' =
                 [d \in Drawers |->
                     LET called ==
                             IF d \in reserveBasementSubscribers
                             THEN CacheCallback(drawer[d],
                                                FetchedContent(response))
                             ELSE drawer[d]
                     IN  IF fetches[f].origin = "open" /\ fetches[f].owner = d
                         THEN OpenThen(called, fetches[f].live,
                                       FetchedContent(response))
                         ELSE called]
    /\ UNCHANGED <<serviceVars, envVars, reserveBasementSubscribers,
                   reserveBasementChannel, channelsOpen, events,
                   unsubscribers>>

\* ensureReserveBasementRealtimeSubscription()
ensureReserveBasementRealtimeSubscription ==
    IF reserveBasementChannel
    THEN UNCHANGED <<reserveBasementChannel, channelsOpen>>
    ELSE /\ reserveBasementChannel' = TRUE
         /\ channelsOpen' = channelsOpen + 1

\* subscribeToReserveBasementCache(cb), cb the callback of drawer d
subscribeToReserveBasementCache(d) ==
    /\ reserveBasementSubscribers' = reserveBasementSubscribers \cup {d}
    /\ ensureReserveBasementRealtimeSubscription
    /\ unsubscribers' = [unsubscribers EXCEPT ![d] = "held"]

\* whether the unsubscribe function removes the channel, never looking at
\* the subscribers that are left
RemovesChannel_Always(left) == reserveBasementChannel

\* whether the unsubscribe function removes the channel, `left` being the
\* subscribers after the delete
RemovesChannel(left) == left = {} /\ reserveBasementChannel

\* the function subscribeToReserveBasementCache returned, called; the
\* function is "held" until its first call, then "called", then "repeated"
unsubscribe(d) ==
    /\ reserveBasementSubscribers' = reserveBasementSubscribers \ {d}
    /\ IF RemovesChannel(reserveBasementSubscribers \ {d})
       THEN /\ reserveBasementChannel' = FALSE
            /\ channelsOpen' = channelsOpen - 1
       ELSE UNCHANGED <<reserveBasementChannel, channelsOpen>>
    /\ unsubscribers' =
         [unsubscribers EXCEPT
            ![d] = IF @ = "held" THEN "called" ELSE "repeated"]

\* the cleanup of the open effect of drawer d: mounted = false
OpenCleanup(d) ==
    [f \in Fetches |->
        IF fetches[f].owner = d THEN [fetches[f] EXCEPT !.live = FALSE]
        ELSE fetches[f]]

\* a drawer is mounted: the subscribe effect runs, then the open effect,
\* which fetches when isOpen
Mount(d, isOpen) ==
    /\ ~drawer[d].mounted
    /\ drawer' = [drawer EXCEPT ![d] =
                    [NoDrawer EXCEPT !.mounted = TRUE, !.isOpen = isOpen]]
    /\ subscribeToReserveBasementCache(d)
    /\ IF isOpen THEN fetchReserveBasementCached(TRUE, "open", d)
                 ELSE UNCHANGED <<fetches, reserveBasementFetchPromise>>
    /\ UNCHANGED <<serviceVars, envVars, reserveBasementCache, events, notified>>

\* a drawer is unmounted: the cleanups of its effects run, and its callback
\* is dropped with its record of calls
Unmount(d) ==
    /\ drawer[d].mounted
    /\ drawer' = [drawer EXCEPT ![d] = NoDrawer]
    /\ unsubscribe(d)
    /\ fetches' = OpenCleanup(d)
    /\ notified' = [notified EXCEPT ![d] = [count |-> 0, value |-> 0]]
    /\ UNCHANGED <<serviceVars, envVars, reserveBasementCache,
                   reserveBasementFetchPromise, events>>

\* isOpen turns true: the open effect runs
Open(d) ==
    /\ drawer[d].mounted /\ ~drawer[d].isOpen
    /\ drawer' = [drawer EXCEPT ![d].isOpen = TRUE]
    /\ fetchReserveBasementCached(TRUE, "open", d)
    /\ UNCHANGED <<serviceVars, envVars, reserveBasementCache,
                   reserveBasementSubscribers, reserveBasementChannel,
                   channelsOpen, events, notified, unsubscribers>>

\* isOpen turns false: the cleanup of the open effect runs
Close(d) ==
    /\ drawer[d].mounted /\ drawer[d].isOpen
    /\ drawer' = [drawer EXCEPT ![d].isOpen = FALSE]
    /\ fetches' = OpenCleanup(d)
    /\ UNCHANGED <<serviceVars, envVars, reserveBasementCache,
                   reserveBasementFetchPromise, reserveBasementSubscribers,
                   reserveBasementChannel, channelsOpen, events,
                   notified, unsubscribers>>

\* the channel delivers a postgres_changes event: its handler runs up to
\* its await
LiveUpdate ==
    /\ reserveBasementChannel
    /\ events' = events + 1
    /\ fetchReserveBasementCached(TRUE, "event", 0)
    /\ UNCHANGED <<serviceVars, envVars, reserveBasementCache,
                   reserveBasementSubscribers, reserveBasementChannel,
                   drawer, channelsOpen, notified, unsubscribers>>

NextDrawer ==
    \/ \E d \in Drawers, isOpen \in BOOLEAN : Mount(d, isOpen)
    \/ \E d \in Drawers : Unmount(d)
    \/ \E d \in Drawers : Open(d)
    \/ \E d \in Drawers : Close(d)
    \/ LiveUpdate
    \/ \E f \in Fetches, response \in Responses : FetchComplete(f, response)

\* a caller of the module subscribes callback d
SubscribeCall(d) ==
    /\ subscribeToReserveBasementCache(d)
    /\ UNCHANGED <<serviceVars, envVars, reserveBasementCache,
                   reserveBasementFetchPromise, fetches, drawer, events,
                   notified>>

\* a caller calls the unsubscribe function it was given for callback d,
\* for the first time or again
UnsubscribeCall(d) ==
    /\ unsubscribers[d] # "none"
    /\ unsubscribe(d)
    /\ UNCHANGED <<serviceVars, envVars, reserveBasementCache,
                   reserveBasementFetchPromise, fetches, drawer, events,
                   notified>>

\* any sequence of calls of the subscription functions of the module
NextSubscribers ==
    \/ \E d \in Callbacks : SubscribeCall(d)
    \/ \E d \in Callbacks : UnsubscribeCall(d)
    \/ LiveUpdate

(***************************************************************************)
(* The env module, the validate-env module and the email-send route.       *)
(***************************************************************************)
\* the memo test of a getEnv that never finds a cached config
Memoized_Never(cached) == FALSE

\* if (cachedConfig)
Memoized(cached) == cached # NoConfig

\* getEnv(): what it throws or returns, whether it executed validateEnv,
\* and the config it leaves in cachedConfig
getEnv ==
    IF Memoized(cachedConfig)
    THEN [threw |-> FALSE, config |-> cachedConfig, validated |-> FALSE,
          cached |-> cachedConfig]
    ELSE IF ~window
    THEN LET v == validateEnv(processEnv)
             config == [v.config EXCEPT !.id = objects + 1]
         IN  IF v.threw
             THEN [threw |-> TRUE, config |-> NoConfig, validated |-> TRUE,
                   cached |-> cachedConfig]
             ELSE [threw |-> FALSE, config |-> config, validated |-> TRUE,
                   cached |-> config]
    ELSE [threw |-> FALSE,
          config |->
             [id |-> objects + 1,
              supabase |->
                 [url |-> processEnv.NEXT_PUBLIC_SUPABASE_URL,
                  anonKey |-> processEnv.NEXT_PUBLIC_SUPABASE_ANON_KEY,
                  serviceRoleKey |-> 0],
              site |-> [url |-> SiteUrl(processEnv)],
              email |-> NoEmail],
          validated |-> FALSE, cached |-> cachedConfig]

\* what a call of getEnv that came back with r has done to the module
GetEnvEffect(r) ==
    /\ cachedConfig' = r.cached
    /\ objects' = IF r.threw THEN objects ELSE r.config.id
    /\ lastValidation' = IF r.validated THEN validateEnv(processEnv)
                          ELSE lastValidation

\* an env getter is read: it calls getEnv
GetEnvCall ==
    /\ Len(getEnvReturns) < MaxGetEnvCalls
    /\ GetEnvEffect(getEnv)
    /\ getEnvReturns' =
         Append(getEnvReturns,
                [threw |-> getEnv.threw, id |-> getEnv.config.id,
                 validated |-> getEnv.validated])
    /\ UNCHANGED <<serviceVars, drawerVars, processEnv, window, loaded, mail>>

\* the catch of validate-env that rethrows whatever NODE_ENV is
Rethrows_Always(nodeEnv) == TRUE

\* process.env.NODE_ENV === 'production'
Rethrows(nodeEnv) == nodeEnv = "production"

\* the validate-env module is loaded
LoadValidateEnv ==
    /\ loaded.state = "no"
    /\ IF ~window
       THEN /\ lastValidation' = validateEnv(processEnv)
            /\ loaded' =
                 [state |-> IF validateEnv(processEnv).threw
                               /\ Rethrows(processEnv.NODE_ENV)
                            THEN "threw" ELSE "loaded",
                  validated |-> TRUE]
       ELSE /\ loaded' = [state |-> "loaded", validated |-> FALSE]
            /\ UNCHANGED lastValidation
    /\ UNCHANGED <<serviceVars, drawerVars, processEnv, window, cachedConfig,
                   objects, getEnvReturns, mail>>

\* env.isEmailConfigured of a config
isEmailConfigured(config) ==
    /\ config.email.smtpHost # "" /\ config.email.smtpUser # ""
    /\ config.email.smtpPass # "" /\ config.email.from # ""
    /\ config.email.to # ""

\* the `missing` list the route builds from env.email
Missing(config) ==
    (IF config.email.smtpHost = "" THEN {"SMTP_HOST"} ELSE {})
    \cup (IF config.email.smtpUser = "" THEN {"SMTP_USER"} ELSE {})
    \cup (IF config.email.smtpPass = "" THEN {"SMTP_PASS"} ELSE {})
    \cup (IF config.email.from = "" THEN {"EMAIL_FROM"} ELSE {})
    \cup (IF config.email.to = "" THEN {"EMAIL_TO"} ELSE {})

\* a response of the route with status 500
MailFailure(m, error, missing) ==
    [m EXCEPT !.pc = "done", !.status = 500, !.error = error,
              !.missing = missing]

\* the codes a rejection of nodemailer may carry
MailCodes == {"EAUTH", "ECONNECTION", "ETIMEDOUT", ""}

\* errorMessage of the catch of the route
MailErrorMessage(code) ==
    IF code = "EAUTH" THEN "SMTP authentication failed"
    ELSE IF code = "ECONNECTION" THEN "Could not connect to SMTP server"
    ELSE IF code = "ETIMEDOUT" THEN "SMTP connection timed out"
    ELSE ExceptionMessage

\* POST /api/send-email up to its await of transporter.verify(): the body
\* is parsed (bodyOk tells whether req.json() returned), the env getters
\* are read and the transporter is created
SendEmailPOST(bodyOk) ==
    /\ mail.pc = "idle"
    /\ IF ~bodyOk
       THEN /\ mail' = MailFailure(mail, ExceptionMessage, {})
            /\ UNCHANGED <<cachedConfig, objects, lastValidation>>
       ELSE /\ GetEnvEffect(getEnv)
            /\ mail' =
                 IF getEnv.threw
                 THEN MailFailure(mail, ExceptionMessage, {})
                 ELSE IF ~isEmailConfigured(getEnv.config)
                 THEN MailFailure(mail, "SMTP not configured on server",
                                  Missing(getEnv.config))
                 ELSE [mail EXCEPT !.pc = "verify", !.configured = TRUE]
    /\ UNCHANGED <<serviceVars, drawerVars, processEnv, window,
                   getEnvReturns, loaded>>

\* the route goes on to sendMail whatever verify came back with
AfterVerify_Ignored(verified) == "send"

\* where the route goes after transporter.verify()
AfterVerify(verified) == IF verified THEN "send" ELSE "done"

\* transporter.verify() comes back
EmailVerify(verified) ==
    /\ mail.pc = "verify"
    /\ LET m == [mail EXCEPT !.calls = Append(@, "verify"),
                             !.verified = IF verified THEN "ok" ELSE "failed"]
       IN  mail' = IF AfterVerify(verified) = "send"
                   THEN [m EXCEPT !.pc = "send"]
                   ELSE MailFailure(m, "SMTP connection failed", {})
    /\ UNCHANGED <<serviceVars, drawerVars, processEnv, window, cachedConfig,
                   objects, getEnvReturns, lastValidation, loaded>>

\* transporter.sendMail(mailOptions) is called and comes back: sent tells
\* whether it resolved, code is the code of its rejection
EmailSend(sent, code) ==
    /\ mail.pc = "send"
    /\ LET m == [mail EXCEPT !.calls = Append(@, "sendMail")]
       IN  mail' = IF sent
                   THEN [m EXCEPT !.pc = "done", !.status = 200, !.ok = TRUE]
                   ELSE MailFailure(m, MailErrorMessage(code), {})
    /\ UNCHANGED <<serviceVars, drawerVars, processEnv, window, cachedConfig,
                   objects, getEnvReturns, lastValidation, loaded>>

\* the env getters read and the validate-env module loaded, in any order
NextEnv ==
    \/ GetEnvCall
    \/ LoadValidateEnv

\* one request to the email-send route
NextEmail ==
    \/ \E bodyOk \in BOOLEAN : SendEmailPOST(bodyOk)
    \/ \E verified \in BOOLEAN : EmailVerify(verified)
    \/ \E sent \in BOOLEAN, code \in MailCodes : EmailSend(sent, code)

NextService ==
    \/ \E c \in Calls, page \in ServedPages : GET(c, page)
    \/ \E c \in Calls, outcome \in DbOutcomes : GETRead(c, outcome)
    \/ \E c \in Calls, page \in ServedPages, body \in Bodies : POST(c, page, body)
    \/ \E c \in Calls, outcome \in DbOutcomes : updateSectionRead(c, outcome)
    \/ \E c \in Calls, outcome \in DbOutcomes, msg \in DbMessages :
          updateSectionInsert(c, outcome, msg)
    \/ \E c \in Calls, outcome \in DbOutcomes, msg \in DbMessages :
          updateSectionUpdate(c, outcome, msg)

\* the handler of a request that has responded is gone, and the next
\* request is served
Finish(c) ==
    /\ call[c].pc = "done"
    /\ call' = [call EXCEPT ![c] = IdleCall]
    /\ UNCHANGED <<table, drawerVars, envVars>>

\* any number of requests, served one after another
NextSerial ==
    \/ \E page \in ServedPages : GET(1, page)
    \/ \E outcome \in DbOutcomes : GETRead(1, outcome)
    \/ \E page \in ServedPages, body \in Bodies : POST(1, page, body)
    \/ \E outcome \in DbOutcomes : updateSectionRead(1, outcome)
    \/ \E outcome \in DbOutcomes, msg \in DbMessages :
          updateSectionInsert(1, outcome, msg)
    \/ \E outcome \in DbOutcomes, msg \in DbMessages :
          updateSectionUpdate(1, outcome, msg)
    \/ Finish(1)

Next == NextService

\* NumCalls requests whose handlers interleave at every await
Spec == Init /\ [][Next]_vars

SpecSerial == Init /\ [][NextSerial]_vars

\* the drawers of one browser tab, the realtime channel and the API
SpecDrawer == InitDrawer /\ [][NextDrawer]_vars

\* the env module of a process, server or browser
SpecEnv == InitEnv /\ [][NextEnv]_vars

\* the email-send route of a server
SpecEmail == InitEmail /\ [][NextEmail]_vars

\* the module used through subscribeToReserveBasementCache alone
SpecSubscribers == InitDrawer /\ [][NextSubscribers]_vars

(***************************************************************************)
(* Properties of the services and routes.                                  *)
(***************************************************************************)
Done(c) == call[c].pc = "done"

\* update<Page>Section was called by request c and returned success
Succeeded(c) ==
    Done(c) /\ call[c].kind = "POST" /\ call[c].serviceCalled
            /\ call[c].result.success

\* the row holds section `key` with payload `value`
HasSection(row, key, value) ==
    key \in DOMAIN SectionsOf(row) /\ SectionsOf(row)[key] = value

\* C1: when two update calls on one page with distinct section keys, whose
\* reads and writes the database answered, have both returned success, a
\* row of the page holds both submitted sections (no update is lost).
C1_NoLostUpdate ==
    \A c1, c2 \in Calls :
        ( /\ c1 # c2 /\ Succeeded(c1) /\ Succeeded(c2)
          /\ call[c1].page = call[c2].page /\ call[c1].key # call[c2].key
          /\ call[c1].value # 0 /\ call[c2].value # 0
          /\ call[c1].readOutcome = "ok" /\ call[c2].readOutcome = "ok" )
        => \E r \in RowsOf(table, call[c1].page) :
              /\ HasSection(r, call[c1].key, call[c1].value)
              /\ HasSection(r, call[c2].key, call[c2].value)

\* C2: in every reachable state the table holds at most one row for each
\* page name.
C2_OneRowPerPage ==
    \A page \in Pages : Cardinality(RowsOf(table, page)) <= 1

\* C3: a call inserts only when the table holds no row of the page, at the
\* time of the call and at the time of the insert; a call made while a row
\* exists never inserts.
C3_InsertOnlyWhenAbsent ==
    \A c \in Calls :
        call[c].inserted => (call[c].before = {} /\ ~call[c].rowAtWrite)

\* no request other than c has written to the table
NoOtherWriter(c) == \A d \in Calls \ {c} : call[d].writes = 0

\* C4: when the page row exists and no other writer interleaves, a
\* successful update(key, value) leaves that row, with its id and page
\* name, holding the previous sections with key mapped to value.
C4_UpdateFrame ==
    \A c \in Calls :
        ( /\ Succeeded(c) /\ NoOtherWriter(c) /\ call[c].value # 0
          /\ Cardinality(call[c].before) = 1 )
        => LET old == CHOOSE r \in call[c].before : TRUE
               prev == SectionsOf(old)
           IN  /\ RowsOf(table, call[c].page) =
                    {[old EXCEPT !.data.data =
                        [k \in DOMAIN prev \cup {call[c].key} |->
                            IF k = call[c].key THEN call[c].value
                                               ELSE prev[k]]]}

\* C5: every response with ok=false carries a message and an error field.
C5_FailureEnvelope ==
    \A c \in Calls :
        (Done(c) /\ ~call[c].resp.ok)
        => {"message", "error"} \subseteq call[c].resp.fields

\* C6: a POST responds 200 with ok=true exactly when the service returned
\* success, and then carries the row that the write returned; otherwise
\* it responds 400 or 500 with ok=false.
C6_PostStatus ==
    \A c \in Calls :
        (Done(c) /\ call[c].kind = "POST")
        => LET me == call[c]
               success == me.serviceCalled /\ me.result.success
           IN  /\ (me.resp.status = 200 /\ me.resp.ok) <=> success
               /\ success => /\ "data" \in me.resp.fields
                              /\ me.resp.data = me.written
                              /\ ~IsNull(me.written)
               /\ ~success => me.resp.status \in {400, 500} /\ ~me.resp.ok

\* a POST has answered 200 for a successful write
C6_Witness ==
    \E c \in Calls :
        Succeeded(c) /\ call[c].resp.status = 200 /\ call[c].updated

\* the database request of a read ended in an error or an exception
ReadFailed(c) == call[c].readOutcome \in {"error", "throw"}

\* the write of request c was refused by the database or threw
WriteFailed(c) ==
    call[c].writes > 0 /\ ~call[c].inserted /\ ~call[c].updated

\* C15: a call of update<Page>Section reads the page row exactly once and
\* writes at most once (an insert or an update, never both), and when its
\* read or its write failed it returns success=false.
C15_NoRetryFailuresReported ==
    \A c \in Calls :
        (Done(c) /\ call[c].kind = "POST" /\ call[c].serviceCalled)
        => /\ call[c].reads = 1
           /\ call[c].writes <= 1
           /\ ~(call[c].inserted /\ call[c].updated)
           /\ (ReadFailed(c) \/ WriteFailed(c)) => ~call[c].result.success

\* C7: when the read of the page fails, GET responds 500 with ok=false,
\* the route's message and an error; it responds ok=true only when the
\* content was read.
C7_GetFailure ==
    \A c \in Calls :
        (Done(c) /\ call[c].kind = "GET")
        => /\ ReadFailed(c)
                => /\ call[c].resp.status = 500 /\ ~call[c].resp.ok
                   /\ call[c].resp.message = FetchFailMessage(call[c].page)
                   /\ "error" \in call[c].resp.fields
           /\ call[c].resp.ok => ~ReadFailed(c)

\* request c is a POST whose body parsed and carries no truthy sectionKey
MissingKeyRequest(c) ==
    call[c].kind = "POST" /\ call[c].parsed /\ ~Truthy(call[c].key)

\* C8: a POST whose sectionKey is missing or falsy is answered, in the step
\* that receives it, with 400 "Missing sectionKey", without calling the
\* service and without changing the table.
C8_MissingSectionKey ==
    [][\A c \in Calls :
          (call[c].pc = "idle" /\ MissingKeyRequest(c)')
          => /\ call'[c].pc = "done"
             /\ call'[c].resp = JsonFailure(400, "Missing sectionKey")
             /\ ~call'[c].serviceCalled
             /\ call'[c].reads = 0 /\ call'[c].writes = 0
             /\ table' = table]_vars

\* a POST with an empty sectionKey has been answered 400
C8_Witness ==
    \E c \in Calls :
        /\ Done(c) /\ MissingKeyRequest(c) /\ call[c].key = ""
        /\ call[c].resp.status = 400

(***************************************************************************)
(* Properties of the drawer's cache.                                       *)
(***************************************************************************)
Pending == {f \in Fetches : fetches[f].state = "pending"}

\* C9: at every moment at most one request to /api/reserve-basement is in
\* flight.
C9_SingleFlight == Cardinality(Pending) <= 1

\* C10: every live-update event starts a forced refetch; when a refetch
\* started by an event succeeds, the cache becomes the fetched content and
\* the callback of every subscriber is called with the new cache value.
C10_LiveUpdateRefresh ==
    [][/\ events' = events + 1
          => \E f \in Fetches :
                /\ fetches[f].state = "unused"
                /\ fetches'[f].state = "pending"
                /\ fetches'[f].origin = "event"
       /\ \A f \in Fetches :
             ( /\ fetches[f].origin = "event"
               /\ fetches[f].state = "pending"
               /\ fetches'[f].state = "resolved" )
             => /\ reserveBasementCache' = fetches'[f].content
                /\ \A d \in reserveBasementSubscribers :
                      /\ notified'[d].count = notified[d].count + 1
                      /\ notified'[d].value = reserveBasementCache']_vars

\* a refetch started by an event has put a content in the cache and passed
\* it to a subscriber
C10_Witness ==
    \E f \in Fetches, d \in reserveBasementSubscribers :
        /\ fetches[f].origin = "event" /\ fetches[f].state = "resolved"
        /\ fetches[f].content # 0
        /\ reserveBasementCache = fetches[f].content
        /\ notified[d].count > 0 /\ notified[d].value = reserveBasementCache

\* the displayIntroCopy, displayContactDetails, displayPolicyTitle,
\* displayPolicyItems and displayReservationFormUrl of a render
Display(dr, f) ==
    IF dr.state[f] # EmptyValue THEN dr.state[f]
    ELSE IF f = "introCopy" /\ ~dr.dataLoaded THEN EmptyValue
    ELSE DefaultValue

\* C11: when the fetch of an open effect that is still mounted fails or
\* yields no content, the drawer ends with dataLoaded true and all five
\* fields at their static defaults, and a rejection has reached a catch.
C11_OpenFailureDefaults ==
    [][\A f \in Fetches :
          ( /\ fetches[f].state = "pending" /\ fetches[f].origin = "open"
            /\ fetches[f].live
            /\ fetches'[f].state \in {"rejected", "resolved"}
            /\ fetches'[f].content = 0 )
          => /\ drawer'[fetches[f].owner].mounted
             /\ drawer'[fetches[f].owner].dataLoaded
             /\ \A fld \in Fields :
                   drawer'[fetches[f].owner].state[fld] = DefaultValue
             /\ fetches'[f].state = "rejected" => fetches'[f].handled]_vars

\* an open drawer shows the defaults after the fetch of its open effect
\* was rejected
C11_Witness ==
    \E d \in Drawers, f \in Fetches :
        /\ drawer[d].mounted /\ drawer[d].isOpen /\ drawer[d].dataLoaded
        /\ \A fld \in Fields : drawer[d].state[fld] = DefaultValue
        /\ fetches[f].state = "rejected" /\ fetches[f].origin = "open"
        /\ fetches[f].handled

\* C16: once the cache is populated, a request to /api/reserve-basement is
\* made only by the handler of a realtime change event.
C16_FetchOnce ==
    \A f \in Fetches :
        (fetches[f].state = "pending" /\ fetches[f].cached)
        => fetches[f].origin = "event"

C18_ChannelIffSubscribers ==
    /\ reserveBasementChannel <=> reserveBasementSubscribers # {}
    /\ channelsOpen <= 1
    /\ reserveBasementChannel <=> channelsOpen = 1

\* an unsubscribe function was called more than once while another
\* callback is subscribed
C18_Witness ==
    \E d \in Callbacks :
        /\ unsubscribers[d] = "repeated"
        /\ reserveBasementSubscribers # {}
        /\ reserveBasementChannel

\* C19: whenever the state of a drawer was loaded from a content of the
\* database, every displayed field is the value the content holds, the
\* empty value included.
C19_DisplaysDatabaseValues ==
    \A d \in Drawers :
        (drawer[d].mounted /\ drawer[d].source # 0)
        => \A f \in Fields :
              Display(drawer[d], f)
                  = extractReserveBasementData(drawer[d].source)[f]

(***************************************************************************)
(* Properties of the env module, validate-env and the email-send route.    *)
(***************************************************************************)
\* a required variable is missing or malformed
RequiredInvalid(pe) ==
    \/ pe.NEXT_PUBLIC_SUPABASE_URL = NoUrl
    \/ ~isValidUrl(pe.NEXT_PUBLIC_SUPABASE_URL)
    \/ pe.NEXT_PUBLIC_SUPABASE_ANON_KEY < MinKeyLength

\* an optional variable is missing or malformed: the service-role key is
\* missing or short, the site URL is invalid, or some but not all of the
\* five email variables are set
OptionalInvalid(pe) ==
    \/ pe.SUPABASE_SERVICE_ROLE_KEY < MinKeyLength
    \/ (pe.NEXT_PUBLIC_SITE_URL # NoUrl /\ ~isValidUrl(pe.NEXT_PUBLIC_SITE_URL))
    \/ \E n, o \in SmtpNames : pe[n] = "" /\ pe[o] # ""

\* the getEnv calls that executed validateEnv
Validating == {i \in DOMAIN getEnvReturns : getEnvReturns[i].validated}

\* the getEnv calls that returned
Returning == {i \in DOMAIN getEnvReturns : ~getEnvReturns[i].threw}

\* C12 as claimed: on the server validateEnv is executed by at most one
\* getEnv call, and all calls that return yield the same config object.
C12_ValidateAtMostOnce ==
    ~window =>
        /\ Cardinality(Validating) <= 1
        /\ \A i, j \in Returning :
              getEnvReturns[i].id = getEnvReturns[j].id

\* C12 amended: on the server, once a getEnv call has returned, no later
\* call executes validateEnv and every later call returns the same config
\* object, so at most one execution of validateEnv returns; a call that
\* throws has executed validateEnv, which every call does until one returns.
C12_MemoizedOnceValid ==
    ~window =>
        /\ \A i, j \in DOMAIN getEnvReturns :
              (i < j /\ i \in Returning)
              => /\ j \in Returning /\ j \notin Validating
                 /\ getEnvReturns[j].id = getEnvReturns[i].id
        /\ \A i \in DOMAIN getEnvReturns :
              i \notin Returning => i \in Validating
        /\ Cardinality(Validating \cap Returning) <= 1

\* two getEnv calls on a server have returned, the first from validateEnv
\* and the second from the cache
C12_Witness ==
    /\ ~window /\ Len(getEnvReturns) = 2
    /\ Returning = {1, 2} /\ Validating = {1}
    /\ getEnvReturns[1].id = getEnvReturns[2].id
    /\ cachedConfig.id = getEnvReturns[1].id

\* C13: validateEnv throws exactly when a required variable is missing or
\* malformed; otherwise it returns a config, and a missing or malformed
\* optional variable only adds a warning.
C13_ThrowsIffRequiredInvalid ==
    lastValidation.ran =>
        /\ lastValidation.threw <=> RequiredInvalid(processEnv)
        /\ ~RequiredInvalid(processEnv)
             => /\ lastValidation.config # NoConfig
                /\ lastValidation.errors = {}
        /\ OptionalInvalid(processEnv) => lastValidation.warnings # {}

\* validateEnv has returned a config, with warnings, for an environment
\* whose service-role key is short, site URL invalid and email variables
\* partly set
C13_Witness ==
    /\ lastValidation.ran /\ ~lastValidation.threw
    /\ lastValidation.config # NoConfig
    /\ lastValidation.warnings # {}
    /\ processEnv.NEXT_PUBLIC_SUPABASE_ANON_KEY = MinKeyLength
    /\ processEnv.SUPABASE_SERVICE_ROLE_KEY = MinKeyLength - 1
    /\ ~isValidUrl(SiteUrl(processEnv))
    /\ processEnv.SMTP_HOST # "" /\ processEnv.SMTP_USER = ""

\* the sendMail calls of the request
Sends == {i \in DOMAIN mail.calls : mail.calls[i] = "sendMail"}

\* C14: the request calls sendMail at most once, and only after the email
\* configuration was found complete and then transporter.verify succeeded;
\* when the configuration is incomplete or verify fails, the answer is a
\* 500 and sendMail was not called.
C14_SendAfterVerify ==
    /\ Cardinality(Sends) <= 1
    /\ Sends # {}
         => /\ mail.calls = <<"verify", "sendMail">>
            /\ mail.configured /\ mail.verified = "ok"
            /\ \A n \in SmtpNames : processEnv[n] # ""
    /\ ( /\ mail.pc = "done"
         /\ \/ \E n \in SmtpNames : processEnv[n] = ""
            \/ mail.verified = "failed" )
         => mail.status = 500 /\ Sends = {}

\* a request has sent its message after a successful verify
C14_Witness ==
    /\ mail.pc = "done" /\ mail.ok /\ mail.status = 200
    /\ mail.calls = <<"verify", "sendMail">>

C21_SiteUrlValid ==
    (lastValidation.ran /\ ~lastValidation.threw)
    => /\ isValidUrl(lastValidation.config.site.url)
       /\ ( /\ processEnv.NEXT_PUBLIC_SITE_URL # NoUrl
            /\ ~isValidUrl(processEnv.NEXT_PUBLIC_SITE_URL) )
          => lastValidation.config.site.url = DefaultSiteUrl

\* SMTP_HOST, SMTP_USER, SMTP_PASS, EMAIL_FROM and EMAIL_TO are all set
AllEmailSet(pe) == \A n \in SmtpNames : pe[n] # ""

\* C22: a config validateEnv returns has an email object exactly when the
\* five email variables are all set; the object then holds their values and
\* the parsed SMTP_PORT, or 587 when SMTP_PORT is not set; and
\* env.isEmailConfigured of the server's config is true exactly then.
C22_EmailAllOrNothing ==
    /\ (lastValidation.ran /\ ~lastValidation.threw)
       => LET email == lastValidation.config.email
          IN  /\ email # NoEmail <=> AllEmailSet(processEnv)
              /\ AllEmailSet(processEnv)
                   => /\ email.smtpHost = processEnv.SMTP_HOST
                      /\ email.smtpUser = processEnv.SMTP_USER
                      /\ email.smtpPass = processEnv.SMTP_PASS
                      /\ email.from = processEnv.EMAIL_FROM
                      /\ email.to = processEnv.EMAIL_TO
                      /\ \A f \in {"smtpHost", "smtpUser", "smtpPass",
                                    "from", "to"} : email[f] # ""
                      /\ processEnv.SMTP_PORT = ""
                           => email.smtpPort = DefaultSmtpPort
                      /\ processEnv.SMTP_PORT # ""
                           => email.smtpPort = parseInt(processEnv.SMTP_PORT)
    /\ (~window /\ cachedConfig # NoConfig)
       => (isEmailConfigured(cachedConfig) <=> AllEmailSet(processEnv))

\* a server holds a config whose email object is complete, with the
\* default port, and env.isEmailConfigured is true
C22_Witness ==
    /\ ~window /\ cachedConfig # NoConfig
    /\ lastValidation.ran /\ ~lastValidation.threw
    /\ AllEmailSet(processEnv) /\ processEnv.SMTP_PORT = ""
    /\ cachedConfig.email.smtpPort = DefaultSmtpPort
    /\ isEmailConfigured(cachedConfig)

\* C23: when the email-send route answers "SMTP not configured on server",
\* its missing list names exactly the email variables that are not set.
C23_MissingExact ==
    (mail.pc = "done" /\ mail.error = "SMTP not configured on server")
    => mail.missing = {n \in SmtpNames : processEnv[n] = ""}

\* C24: a call of update<Page>Section returns a result; when its read or
\* its write failed the result is success=false, and a call that returned
\* success=false has written nothing to the table.
C24_FailureReturnedTableUnchanged ==
    \A c \in Calls :
        (Done(c) /\ call[c].kind = "POST" /\ call[c].serviceCalled)
        => /\ (ReadFailed(c) \/ WriteFailed(c))
                => /\ ~call[c].result.success
                   /\ call[c].result.data = NoRow
           /\ ~call[c].result.success
                => /\ ~call[c].inserted /\ ~call[c].updated
                   /\ call[c].written = NoRow

====
